---------------------------- MODULE Spec2Model ----------------------------
(***************************************************************************)
(* DictFetch: a command-line dictionary that looks a word up in two        *)
(* providers (dictionaryapi.dev and DBnary) concurrently, merges the       *)
(* normalized definitions, and keeps a history of searches in a JSON file. *)
(*                                                                         *)
(* Go strings are modelled as sequences of one-character strings, so that  *)
(* trimming, searching for '#', and JSON quoting are computed, not assumed.*)
(***************************************************************************)
EXTENDS Integers, Sequences, FiniteSets, TLC

(***************************************************************************)
(* Bounds of the model.                                                    *)
(***************************************************************************)
MaxNodes == 5      \* entries + meanings + definitions of a DictEntry list
MaxRows == 2       \* binding rows of a SPARQL result
MaxPosLen == 3     \* characters of a partOfSpeech value
MaxTime == 1       \* last instant of the logical clock
MaxInputs == 2
MaxElems == 2
MaxFileLen == 3     \* lines handled by the interactive loop

(***************************************************************************)
(* Strings.                                                                *)
(***************************************************************************)
IsSpace(ch) == ch \in {" ", "\t", "\n"}

RECURSIVE TrimLeft(_)
TrimLeft(s) ==
    IF s # <<>> /\ IsSpace(Head(s)) THEN TrimLeft(Tail(s)) ELSE s

RECURSIVE TrimRight(_)
TrimRight(s) ==
    IF s # <<>> /\ IsSpace(s[Len(s)]) THEN TrimRight(SubSeq(s, 1, Len(s) - 1)) ELSE s

TrimSpace(s) == TrimRight(TrimLeft(s))

\* strings.LastIndex(s, ch) for a one-character needle, 0-based; -1 if absent
LastIndex(s, ch) ==
    IF \E i \in 1..Len(s) : s[i] = ch
    THEN (CHOOSE i \in 1..Len(s) : s[i] = ch /\ \A j \in (i+1)..Len(s) : s[j] # ch) - 1
    ELSE -1

\* Go's s[i:] with a 0-based i
SliceFrom(s, i) == SubSeq(s, i + 1, Len(s))

\* m[k] on a Go map: the zero value when the key is absent
MapGet(m, k, zero) == IF k \in DOMAIN m THEN m[k] ELSE zero

RECURSIVE Concat(_)
Concat(ss) == IF ss = <<>> THEN <<>> ELSE Head(ss) \o Concat(Tail(ss))

(***************************************************************************)
(* Normalizers.                                                            *)
(***************************************************************************)
DictSource == "dictionaryapi.dev"
DBnarySource == "DBnary"

\* a variant of DictLeaf that takes the part of speech of the entry's first meaning
MutDictLeaf(entry, meaning, def) ==
    [Word |-> entry.Word, PartOfSpeech |-> entry.Meanings[1].PartOfSpeech,
     Definition |-> def.Definition, Example |-> def.Example,
     Source |-> "dictionaryapi.dev"]

\* the inner loop of ConvertDictEntries: one Definition per leaf definition
DictLeaf(entry, meaning, def) ==
    [Word |-> entry.Word, PartOfSpeech |-> meaning.PartOfSpeech,
     Definition |-> def.Definition, Example |-> def.Example,
     Source |-> DictSource]

DictMeaning(entry, meaning) ==
    [i \in 1..Len(meaning.Definitions) |-> DictLeaf(entry, meaning, meaning.Definitions[i])]

DictEntryDefs(entry) ==
    Concat([m \in 1..Len(entry.Meanings) |-> DictMeaning(entry, entry.Meanings[m])])

ConvertDictEntries(entries) ==
    Concat([e \in 1..Len(entries) |-> DictEntryDefs(entries[e])])

\* a variant of BindingPos that cuts at the first '#'
MutBindingPos(binding) ==
    IF "partOfSpeech" \in DOMAIN binding
    THEN LET pos == MapGet(binding["partOfSpeech"], "value", <<>>)
             i == IF \E k \in 1..Len(pos) : pos[k] = "#"
                  THEN (CHOOSE k \in 1..Len(pos) : pos[k] = "#" /\ \A j \in 1..(k-1) : pos[j] # "#") - 1
                  ELSE -1
         IN IF i # -1 /\ i + 1 < Len(pos) THEN SliceFrom(pos, i + 1) ELSE pos
    ELSE <<>>

\* the partOfSpeech of a binding row
BindingPos(binding) ==
    IF "partOfSpeech" \in DOMAIN binding
    THEN LET pos == MapGet(binding["partOfSpeech"], "value", <<>>)
             i == LastIndex(pos, "#")
         IN IF i # -1 /\ i + 1 < Len(pos) THEN SliceFrom(pos, i + 1) ELSE pos
    ELSE <<>>

BindingDef(binding) ==
    IF "definition" \in DOMAIN binding
    THEN MapGet(binding["definition"], "value", <<>>)
    ELSE <<>>

BindingExample(binding) ==
    IF "example" \in DOMAIN binding
    THEN MapGet(binding["example"], "value", <<>>)
    ELSE <<>>

\* a variant of RowKept that does not trim
MutRowKept(binding) ==
    (IF "definition" \in DOMAIN binding
     THEN MapGet(binding["definition"], "value", <<>>) ELSE <<>>) # <<>>

\* a row is skipped when its definition is blank after trimming
RowKept(binding) == TrimSpace(BindingDef(binding)) # <<>>

ConvertBinding(binding, word) ==
    IF RowKept(binding)
    THEN << [Word |-> word, PartOfSpeech |-> BindingPos(binding),
             Definition |-> BindingDef(binding), Example |-> BindingExample(binding),
             Source |-> DBnarySource] >>
    ELSE <<>>

ConvertSparqlEntry(entry, word) ==
    Concat([b \in 1..Len(entry.Bindings) |-> ConvertBinding(entry.Bindings[b], word)])

ConvertDBnaryEntries(entries, word) ==
    Concat([e \in 1..Len(entries) |-> ConvertSparqlEntry(entries[e], word)])


(***************************************************************************)
(* Errors.  A Go error is a record; the nil error is Nil.                  *)
(***************************************************************************)
Nil == [kind |-> "nil", code |-> 0]
Err(kind) == [kind |-> kind, code |-> 0]
StatusErr(code) == [kind |-> "status", code |-> code]

\* os.IsNotExist
IsNotExist(err) == err.kind = "notexist"

(***************************************************************************)
(* encoding/json on a []string, over the bytes of the history file.        *)
(***************************************************************************)
Quote == "\""
Backslash == "\\"

\* a variant of EscapeString that escapes nothing
MutEscapeString(s) == s

RECURSIVE EscapeString(_)
EscapeString(s) ==
    IF s = <<>> THEN <<>>
    ELSE (IF Head(s) \in {Quote, Backslash} THEN <<Backslash, Head(s)>> ELSE <<Head(s)>>)
         \o EscapeString(Tail(s))

QuoteString(s) == <<Quote>> \o EscapeString(s) \o <<Quote>>

RECURSIVE JoinQuoted(_)
JoinQuoted(list) ==
    IF list = <<>> THEN <<>>
    ELSE IF Len(list) = 1 THEN QuoteString(list[1])
    ELSE QuoteString(Head(list)) \o <<",">> \o JoinQuoted(Tail(list))

\* json.Marshal of a non-nil []string
Marshal(list) == <<"[">> \o JoinQuoted(list) \o <<"]">>

RECURSIVE SkipSpace(_, _)
SkipSpace(s, i) == IF i <= Len(s) /\ IsSpace(s[i]) THEN SkipSpace(s, i + 1) ELSE i

ParseFail == [ok |-> FALSE, val |-> <<>>, next |-> 0]

\* the body of a JSON string, from the character after its opening quote
RECURSIVE ScanString(_, _, _)
ScanString(s, i, acc) ==
    IF i > Len(s) THEN ParseFail
    ELSE IF s[i] = Quote THEN [ok |-> TRUE, val |-> acc, next |-> i + 1]
    ELSE IF s[i] = Backslash
         THEN IF i + 1 <= Len(s) /\ s[i + 1] \in {Quote, Backslash}
              THEN ScanString(s, i + 2, Append(acc, s[i + 1]))
              ELSE ParseFail
    ELSE IF s[i] \in {"\t", "\n"} THEN ParseFail
    ELSE ScanString(s, i + 1, Append(acc, s[i]))

\* the elements of an array, from the first character of an element
RECURSIVE ScanElements(_, _, _)
ScanElements(s, i, acc) ==
    IF i > Len(s) \/ s[i] # Quote THEN ParseFail
    ELSE LET r == ScanString(s, i + 1, <<>>)
             j == SkipSpace(s, r.next)
         IN IF ~r.ok \/ j > Len(s) THEN ParseFail
            ELSE IF s[j] = "," THEN ScanElements(s, SkipSpace(s, j + 1), Append(acc, r.val))
            ELSE IF s[j] = "]" THEN [ok |-> TRUE, val |-> Append(acc, r.val), next |-> j + 1]
            ELSE ParseFail

ScanArray(s) ==
    LET i == SkipSpace(s, 1)
    IN IF i > Len(s) \/ s[i] # "[" THEN ParseFail
       ELSE LET j == SkipSpace(s, i + 1)
            IN IF j <= Len(s) /\ s[j] = "]"
               THEN [ok |-> TRUE, val |-> <<>>, next |-> j + 1]
               ELSE ScanElements(s, j, <<>>)

\* json.Unmarshal(data, &[]string{}): the list, or a syntax error
Unmarshal(data) ==
    LET r == ScanArray(data)
    IN IF r.ok /\ SkipSpace(data, r.next) = Len(data) + 1
       THEN [val |-> r.val, err |-> Nil]
       ELSE [val |-> <<>>, err |-> Err("json")]

(***************************************************************************)
(* The history file.  A file is [exists, data]; env is what the operating  *)
(* system answers during one call: caller (runtime.Caller), read, mkdir    *)
(* and write.                                                              *)
(***************************************************************************)
NoFile == [exists |-> FALSE, data |-> <<>>]

Envs == [caller : BOOLEAN, read : {"ok", "eio"}, mkdir : {"ok", "eperm"},
         write : {"ok", "openfail", "truncated"}]

\* os.ReadFile
ReadFile(file, env) ==
    IF ~file.exists THEN [data |-> <<>>, err |-> Err("notexist")]
    ELSE IF env.read # "ok" THEN [data |-> <<>>, err |-> Err("io")]
    ELSE [data |-> file.data, err |-> Nil]

getRecentSearches(file, env) ==
    IF ~env.caller THEN [val |-> <<>>, err |-> Err("caller")]
    ELSE LET rd == ReadFile(file, env)
         IN IF rd.err # Nil
            THEN IF IsNotExist(rd.err) THEN [val |-> <<>>, err |-> Nil]
                 ELSE [val |-> <<>>, err |-> rd.err]
            ELSE Unmarshal(rd.data)

\* os.WriteFile: create or truncate, then write
WriteFile(file, data, env) ==
    CASE env.write = "ok" -> [file |-> [exists |-> TRUE, data |-> data], err |-> Nil]
      [] env.write = "openfail" -> [file |-> file, err |-> Err("write")]
      [] OTHER -> [file |-> [exists |-> TRUE, data |-> <<>>], err |-> Err("write")]

\* a variant of addRecentSearch that goes on after a failed read
MutAddRecentSearch(word, file, env) ==
    LET got == getRecentSearches(file, env)
        jsonString == Marshal(Append(got.val, word))
        wr == WriteFile(file, jsonString, env)
    IN IF ~env.caller THEN [file |-> file, json |-> <<>>, err |-> Err("caller")]
       ELSE IF env.mkdir # "ok" THEN [file |-> file, json |-> <<>>, err |-> Err("mkdir")]
       ELSE IF wr.err # Nil THEN [file |-> wr.file, json |-> <<>>, err |-> wr.err]
       ELSE [file |-> wr.file, json |-> jsonString, err |-> Nil]

\* the file afterwards, the bytes returned and the error
addRecentSearch(word, file, env) ==
    LET got == getRecentSearches(file, env)
        existingSearches == Append(got.val, word)
        jsonString == Marshal(existingSearches)
        wr == WriteFile(file, jsonString, env)
    IN IF got.err # Nil /\ ~IsNotExist(got.err)
       THEN [file |-> file, json |-> <<>>, err |-> got.err]
       ELSE IF ~env.caller THEN [file |-> file, json |-> <<>>, err |-> Err("caller")]
       ELSE IF env.mkdir # "ok" THEN [file |-> file, json |-> <<>>, err |-> Err("mkdir")]
       ELSE IF wr.err # Nil THEN [file |-> wr.file, json |-> <<>>, err |-> wr.err]
       ELSE [file |-> wr.file, json |-> jsonString, err |-> Nil]


(***************************************************************************)
(* Provider clients.  A response is what the network answers: a transport  *)
(* failure (timeout), or a status code and a body.                         *)
(***************************************************************************)
StatusOK == 200

\* a variant of LookupDictEntry that decodes every response with a 2xx status
MutLookupDictEntry(resp) ==
    IF resp.transport # "ok" THEN [entries |-> <<>>, err |-> Err("network")]
    ELSE IF resp.status \notin 200..299 THEN [entries |-> <<>>, err |-> StatusErr(resp.status)]
    ELSE IF resp.body.open = "" THEN [entries |-> <<>>, err |-> Err("json")]
    ELSE IF resp.body.open # "[" THEN [entries |-> <<>>, err |-> Err("notarray")]
    ELSE IF \E i \in 1..Len(resp.body.elems) : resp.body.elems[i].bad
         THEN [entries |-> <<>>, err |-> Err("json")]
    ELSE IF ~resp.body.closed THEN [entries |-> <<>>, err |-> Err("json")]
    ELSE [entries |-> [i \in 1..Len(resp.body.elems) |-> resp.body.elems[i].entry],
          err |-> Nil]

\* the body of a dictionaryapi.dev response: its first token, the elements
\* that follow (an element that does not decode is bad), whether ']' closes it
LookupDictEntry(resp) ==
    IF resp.transport # "ok" THEN [entries |-> <<>>, err |-> Err("network")]
    ELSE IF resp.status # StatusOK THEN [entries |-> <<>>, err |-> StatusErr(resp.status)]
    ELSE IF resp.body.open = "" THEN [entries |-> <<>>, err |-> Err("json")]
    ELSE IF resp.body.open # "[" THEN [entries |-> <<>>, err |-> Err("notarray")]
    ELSE IF \E i \in 1..Len(resp.body.elems) : resp.body.elems[i].bad
         THEN [entries |-> <<>>, err |-> Err("json")]
    ELSE IF ~resp.body.closed THEN [entries |-> <<>>, err |-> Err("json")]
    ELSE [entries |-> [i \in 1..Len(resp.body.elems) |-> resp.body.elems[i].entry],
          err |-> Nil]

\* the body of a DBnary response: one JSON object, or bytes that do not decode
LookupDBnaryEntry(resp) ==
    IF resp.transport # "ok" THEN [entries |-> <<>>, err |-> Err("network")]
    ELSE IF resp.status # StatusOK THEN [entries |-> <<>>, err |-> StatusErr(resp.status)]
    ELSE IF ~resp.body.valid THEN [entries |-> <<>>, err |-> Err("json")]
    ELSE [entries |-> << resp.body.result >>, err |-> Nil]

(***************************************************************************)
(* What the network may answer in the model.                               *)
(***************************************************************************)
Str(v) == [value |-> v]
NoBody == [open |-> "", elems |-> <<>>, closed |-> FALSE]
DictBody(entries) ==
    [open |-> "[", elems |-> [i \in 1..Len(entries) |-> [bad |-> FALSE, entry |-> entries[i]]],
     closed |-> TRUE]
CatEntry(w) ==
    [Word |-> w,
     Meanings |-> << [PartOfSpeech |-> <<"n">>,
                      Definitions |-> << [Definition |-> <<"d">>, Example |-> <<"e">>],
                                         [Definition |-> <<" ">>, Example |-> <<>>] >>] >>]
DictResponses(w) ==
    { [transport |-> "timeout", status |-> 0, body |-> NoBody],
      [transport |-> "ok", status |-> StatusOK, body |-> DictBody(<<>>)],
      [transport |-> "ok", status |-> StatusOK, body |-> DictBody(<<CatEntry(w)>>)] }

NoResult == [Bindings |-> <<>>]
CatResult ==
    [Bindings |-> << ("definition" :> Str(<<"f">>)) @@ ("partOfSpeech" :> Str(<<"u", "#", "n">>)),
                     ("definition" :> Str(<<" ">>)),
                     ("definition" :> Str(<<"g">>)) @@ ("example" :> Str(<<"x">>)) >>]
DBnaryResponses ==
    { [transport |-> "ok", status |-> 500, body |-> [valid |-> FALSE, result |-> NoResult]],
      [transport |-> "ok", status |-> StatusOK, body |-> [valid |-> TRUE, result |-> NoResult]],
      [transport |-> "ok", status |-> StatusOK, body |-> [valid |-> TRUE, result |-> CatResult]] }

(***************************************************************************)
(* State.                                                                  *)
(***************************************************************************)
Providers == {DictSource, DBnarySource}
Calls == {"c1", "c2"}

ChanCap == 2

VARIABLES
    now,             \* the clock
    file,            \* the history file
    added,           \* the words addRecentSearch has written, in order
    addFailed,       \* whether an addRecentSearch has returned an error
    nInputs,         \* lines read so far
    hpc,             \* the interactive loop: prompt, lookup, exited
    out,             \* what the loop printed last
    mpc,             \* per call: where LookupAll's own goroutine is
    word,            \* per call: LookupAll's argument
    startTimeTotal,  \* per call
    wg,              \* per wait group: its counter
    tpc,             \* per call and provider: where the task is
    tstart,          \* per call and provider: the task's start
    result,          \* per call and provider: what the client returned
    chans,           \* per channel set: defChan, errChan, durChan
    cpc,             \* per call: where the closing goroutine is
    allDefinitions,  \* per call
    timings,         \* per call
    ret,             \* per call: what LookupAll returned
    panicked,        \* the process has panicked
    sends,           \* per call: the tasks that have sent on each channel, in order
    conv             \* a normalizer applied to an input on its own

cliVars == <<file, added, addFailed, nInputs, hpc, out>>
engVars == <<mpc, word, startTimeTotal, wg, tpc, tstart, result, chans, cpc,
             allDefinitions, timings, ret, panicked, sends>>
vars == <<now, cliVars, engVars, conv>>

EmptyMap == [x \in {} |-> 0]
ZeroTiming == [Total |-> 0, Sources |-> EmptyMap]
NoReturn == [defs |-> <<>>, timing |-> ZeroTiming, err |-> Nil]
NoLookup == [entries |-> <<>>, err |-> Nil]
NewChan == [buf |-> <<>>, closed |-> FALSE]
NewChans == [defChan |-> NewChan, errChan |-> NewChan, durChan |-> NewChan]
NoSends == [def |-> <<>>, err |-> <<>>, dur |-> <<>>]
NoConv == [fn |-> "none", in |-> <<>>, word |-> <<>>, out |-> <<>>, done |-> FALSE]

\* a variant of ChanOf in which every call uses the same channels
MutChanOf(c) == "c1"

\* each call makes its own channels and its own wait group
ChanOf(c) == c
WaitGroupOf(c) == c

EngInit ==
    /\ mpc = [c \in Calls |-> "idle"]
    /\ word = [c \in Calls |-> <<>>]
    /\ startTimeTotal = [c \in Calls |-> 0]
    /\ wg = [c \in Calls |-> 0]
    /\ tpc = [c \in Calls |-> [p \in Providers |-> "idle"]]
    /\ tstart = [c \in Calls |-> [p \in Providers |-> 0]]
    /\ result = [c \in Calls |-> [p \in Providers |-> NoLookup]]
    /\ chans = [c \in Calls |-> NewChans]
    /\ cpc = [c \in Calls |-> "idle"]
    /\ allDefinitions = [c \in Calls |-> <<>>]
    /\ timings = [c \in Calls |-> ZeroTiming]
    /\ ret = [c \in Calls |-> NoReturn]
    /\ panicked = FALSE
    /\ sends = [c \in Calls |-> NoSends]

\* what the loop prints: a message, and with the history its list
Printed(msg) == [msg |-> msg, list |-> <<>>]

CliInit ==
    /\ file = NoFile
    /\ added = <<>>
    /\ addFailed = FALSE
    /\ nInputs = 0
    /\ hpc = "prompt"
    /\ out = Printed("none")

\* time.Now(): the clock has moved on by some amount since it was last read
ReadClock(t) == t \in now..MaxTime /\ now' = t


(***************************************************************************)
(* LookupAll.                                                              *)
(***************************************************************************)
\* applying a provider's client, and its normalizer
Lookup(p, resp) == IF p = DictSource THEN LookupDictEntry(resp) ELSE LookupDBnaryEntry(resp)
Responses(p, w) == IF p = DictSource THEN DictResponses(w) ELSE DBnaryResponses
Convert(p, entries, w) ==
    IF p = DictSource THEN ConvertDictEntries(entries) ELSE ConvertDBnaryEntries(entries, w)

\* LookupAll up to the start of its first loop: the start time, the wait
\* group, the channels and the three goroutines
LookupAllStart(c, w) ==
    /\ \E t \in now..MaxTime : ReadClock(t) /\ startTimeTotal' = [startTimeTotal EXCEPT ![c] = t]
    /\ word' = [word EXCEPT ![c] = w]
    /\ wg' = [wg EXCEPT ![WaitGroupOf(c)] = 2]
    /\ chans' = [chans EXCEPT ![ChanOf(c)] = NewChans]
    /\ tpc' = [tpc EXCEPT ![c] = [p \in Providers |-> "spawned"]]
    /\ tstart' = [tstart EXCEPT ![c] = [p \in Providers |-> 0]]
    /\ result' = [result EXCEPT ![c] = [p \in Providers |-> NoLookup]]
    /\ cpc' = [cpc EXCEPT ![c] = "wait"]
    /\ mpc' = [mpc EXCEPT ![c] = "rangeDefs"]
    /\ allDefinitions' = [allDefinitions EXCEPT ![c] = <<>>]
    /\ timings' = [timings EXCEPT ![c] = ZeroTiming]
    /\ ret' = [ret EXCEPT ![c] = NoReturn]
    /\ sends' = [sends EXCEPT ![c] = NoSends]
    /\ UNCHANGED panicked

\* a task: start := time.Now()
TaskStart(c, p) ==
    /\ ~panicked
    /\ tpc[c][p] = "spawned"
    /\ \E t \in now..MaxTime : ReadClock(t) /\ tstart' = [tstart EXCEPT ![c][p] = t]
    /\ tpc' = [tpc EXCEPT ![c][p] = "lookup"]
    /\ UNCHANGED <<cliVars, conv, mpc, word, startTimeTotal, wg, result, chans, cpc,
                   allDefinitions, timings, ret, panicked, sends>>

\* a task: entries, err := its client's lookup of the word
TaskLookup(c, p) ==
    /\ ~panicked
    /\ tpc[c][p] = "lookup"
    /\ \E resp \in Responses(p, word[c]) :
         /\ result' = [result EXCEPT ![c][p] = Lookup(p, resp)]
         /\ tpc' = [tpc EXCEPT ![c][p] =
                       IF Lookup(p, resp).err # Nil THEN "sendErr" ELSE "sendDefs"]
    /\ UNCHANGED <<now, cliVars, conv, mpc, word, startTimeTotal, wg, tstart, chans, cpc,
                   allDefinitions, timings, ret, panicked, sends>>

\* a variant of CanSend for channels with room for one message less
MutCanSend(ch) == ch.closed \/ Len(ch.buf) < ChanCap - 1

\* ch <- msg on a buffered channel: it blocks while the buffer is full, and
\* panics on a closed channel
CanSend(ch) == ch.closed \/ Len(ch.buf) < ChanCap
SendTo(ch, msg) == [ch EXCEPT !.buf = Append(@, msg)]

\* a task: errChan <- err; return
TaskSendErr(c, p) ==
    /\ ~panicked
    /\ tpc[c][p] = "sendErr"
    /\ CanSend(chans[ChanOf(c)].errChan)
    /\ IF chans[ChanOf(c)].errChan.closed
       THEN panicked' = TRUE /\ UNCHANGED <<chans, tpc, sends>>
       ELSE /\ chans' = [chans EXCEPT ![ChanOf(c)].errChan = SendTo(@, result[c][p].err)]
            /\ tpc' = [tpc EXCEPT ![c][p] = "deferred"]
            /\ sends' = [sends EXCEPT ![c].err = Append(@, p)]
            /\ UNCHANGED panicked
    /\ UNCHANGED <<now, cliVars, conv, mpc, word, startTimeTotal, wg, tstart, result, cpc,
                   allDefinitions, timings, ret>>

\* a task: defChan <- its normalizer's definitions
TaskSendDefs(c, p) ==
    /\ ~panicked
    /\ tpc[c][p] = "sendDefs"
    /\ CanSend(chans[ChanOf(c)].defChan)
    /\ IF chans[ChanOf(c)].defChan.closed
       THEN panicked' = TRUE /\ UNCHANGED <<chans, tpc, sends>>
       ELSE /\ chans' = [chans EXCEPT ![ChanOf(c)].defChan =
                            SendTo(@, Convert(p, result[c][p].entries, word[c]))]
            /\ tpc' = [tpc EXCEPT ![c][p] = "sendDur"]
            /\ sends' = [sends EXCEPT ![c].def = Append(@, p)]
            /\ UNCHANGED panicked
    /\ UNCHANGED <<now, cliVars, conv, mpc, word, startTimeTotal, wg, tstart, result, cpc,
                   allDefinitions, timings, ret>>

\* a variant of DurName in which both tasks report under the same name
MutDurName(p) == DictSource

\* the name a task reports its duration under
DurName(p) == p

\* a task: durChan <- {name, time.Since(start)}
TaskSendDur(c, p) ==
    /\ ~panicked
    /\ tpc[c][p] = "sendDur"
    /\ CanSend(chans[ChanOf(c)].durChan)
    /\ \E t \in now..MaxTime :
         /\ ReadClock(t)
         /\ IF chans[ChanOf(c)].durChan.closed
            THEN panicked' = TRUE /\ UNCHANGED <<chans, tpc, sends>>
            ELSE /\ chans' = [chans EXCEPT ![ChanOf(c)].durChan =
                                 SendTo(@, [name |-> DurName(p), dur |-> t - tstart[c][p]])]
                 /\ tpc' = [tpc EXCEPT ![c][p] = "deferred"]
                 /\ sends' = [sends EXCEPT ![c].dur = Append(@, p)]
                 /\ UNCHANGED panicked
    /\ UNCHANGED <<cliVars, conv, mpc, word, startTimeTotal, wg, tstart, result, cpc,
                   allDefinitions, timings, ret>>

\* a task: the deferred waitGroup.Done()
TaskDone(c, p) ==
    /\ ~panicked
    /\ tpc[c][p] = "deferred"
    /\ wg' = [wg EXCEPT ![WaitGroupOf(c)] = @ - 1]
    /\ tpc' = [tpc EXCEPT ![c][p] = "done"]
    /\ UNCHANGED <<now, cliVars, conv, mpc, word, startTimeTotal, tstart, result, chans, cpc,
                   allDefinitions, timings, ret, panicked, sends>>

\* a variant of WaitReturns that does not wait
MutWaitNone(c) == TRUE

\* a variant of WaitReturns that waits for one task only
MutWaitReturns(c) == wg[WaitGroupOf(c)] <= 1

\* the closing goroutine: waitGroup.Wait()
WaitReturns(c) == wg[WaitGroupOf(c)] = 0

CloserWait(c) ==
    /\ ~panicked
    /\ cpc[c] = "wait"
    /\ WaitReturns(c)
    /\ cpc' = [cpc EXCEPT ![c] = "closeDef"]
    /\ UNCHANGED <<now, cliVars, conv, mpc, word, startTimeTotal, wg, tpc, tstart, result,
                   chans, allDefinitions, timings, ret, panicked, sends>>

\* the closing goroutine: close(defChan)
CloseDef(c) ==
    /\ ~panicked
    /\ cpc[c] = "closeDef"
    /\ chans' = [chans EXCEPT ![ChanOf(c)].defChan.closed = TRUE]
    /\ cpc' = [cpc EXCEPT ![c] = "closeErr"]
    /\ UNCHANGED <<now, cliVars, conv, mpc, word, startTimeTotal, wg, tpc, tstart, result,
                   allDefinitions, timings, ret, panicked, sends>>

\* the closing goroutine: close(errChan)
CloseErr(c) ==
    /\ ~panicked
    /\ cpc[c] = "closeErr"
    /\ chans' = [chans EXCEPT ![ChanOf(c)].errChan.closed = TRUE]
    /\ cpc' = [cpc EXCEPT ![c] = "closeDur"]
    /\ UNCHANGED <<now, cliVars, conv, mpc, word, startTimeTotal, wg, tpc, tstart, result,
                   allDefinitions, timings, ret, panicked, sends>>

\* a variant of CloseDur that leaves durChan open
MutCloseDur(c) ==
    /\ ~panicked
    /\ cpc[c] = "closeDur"
    /\ cpc' = [cpc EXCEPT ![c] = "exit"]
    /\ UNCHANGED <<now, cliVars, conv, mpc, word, startTimeTotal, wg, tpc, tstart, result,
                   chans, allDefinitions, timings, ret, panicked, sends>>

\* the closing goroutine: close(durChan)
CloseDur(c) ==
    /\ ~panicked
    /\ cpc[c] = "closeDur"
    /\ chans' = [chans EXCEPT ![ChanOf(c)].durChan.closed = TRUE]
    /\ cpc' = [cpc EXCEPT ![c] = "exit"]
    /\ UNCHANGED <<now, cliVars, conv, mpc, word, startTimeTotal, wg, tpc, tstart, result,
                   allDefinitions, timings, ret, panicked, sends>>

\* a variant of AppendDefs that puts the newer definitions first
MutAppendDefs(all, defs) == defs \o all

\* allDefinitions = append(allDefinitions, defs...)
AppendDefs(all, defs) == all \o defs

\* for defs := range defChan: one iteration
MainRecvDefs(c) ==
    /\ ~panicked
    /\ mpc[c] = "rangeDefs"
    /\ chans[ChanOf(c)].defChan.buf # <<>>
    /\ allDefinitions' = [allDefinitions EXCEPT ![c] =
                           AppendDefs(@, Head(chans[ChanOf(c)].defChan.buf))]
    /\ chans' = [chans EXCEPT ![ChanOf(c)].defChan.buf = Tail(@)]
    /\ UNCHANGED <<now, cliVars, conv, mpc, word, startTimeTotal, wg, tpc, tstart, result, cpc,
                   timings, ret, panicked, sends>>

\* for defs := range defChan: the channel is closed and drained
MainDefsClosed(c) ==
    /\ ~panicked
    /\ mpc[c] = "rangeDefs"
    /\ chans[ChanOf(c)].defChan.buf = <<>>
    /\ chans[ChanOf(c)].defChan.closed
    /\ mpc' = [mpc EXCEPT ![c] = "timings"]
    /\ UNCHANGED <<now, cliVars, conv, word, startTimeTotal, wg, tpc, tstart, result, chans,
                   cpc, allDefinitions, timings, ret, panicked, sends>>

\* timings := LookupTiming{Total: time.Since(startTimeTotal), Sources: make(...)}
MainTimings(c) ==
    /\ ~panicked
    /\ mpc[c] = "timings"
    /\ \E t \in now..MaxTime :
         /\ ReadClock(t)
         /\ timings' = [timings EXCEPT ![c] =
                           [Total |-> t - startTimeTotal[c], Sources |-> EmptyMap]]
    /\ mpc' = [mpc EXCEPT ![c] = "rangeDurs"]
    /\ UNCHANGED <<cliVars, conv, word, startTimeTotal, wg, tpc, tstart, result, chans, cpc,
                   allDefinitions, ret, panicked, sends>>

\* m[k] = v on a Go map
MapPut(m, k, v) == [x \in DOMAIN m \cup {k} |-> IF x = k THEN v ELSE m[x]]

\* for d := range durChan: one iteration
MainRecvDur(c) ==
    /\ ~panicked
    /\ mpc[c] = "rangeDurs"
    /\ chans[ChanOf(c)].durChan.buf # <<>>
    /\ LET d == Head(chans[ChanOf(c)].durChan.buf)
       IN timings' = [timings EXCEPT ![c].Sources = MapPut(@, d.name, d.dur)]
    /\ chans' = [chans EXCEPT ![ChanOf(c)].durChan.buf = Tail(@)]
    /\ UNCHANGED <<now, cliVars, conv, mpc, word, startTimeTotal, wg, tpc, tstart, result, cpc,
                   allDefinitions, ret, panicked, sends>>

\* for d := range durChan: the channel is closed and drained
MainDursClosed(c) ==
    /\ ~panicked
    /\ mpc[c] = "rangeDurs"
    /\ chans[ChanOf(c)].durChan.buf = <<>>
    /\ chans[ChanOf(c)].durChan.closed
    /\ mpc' = [mpc EXCEPT ![c] = "checkErr"]
    /\ UNCHANGED <<now, cliVars, conv, word, startTimeTotal, wg, tpc, tstart, result, chans,
                   cpc, allDefinitions, timings, ret, panicked, sends>>

\* a variant of Returned that sees an error only when two are buffered
MutReturned(defs, tim, errBuf) ==
    IF Len(errBuf) > 1
    THEN [defs |-> defs, timing |-> ZeroTiming, err |-> Head(errBuf)]
    ELSE [defs |-> defs, timing |-> tim, err |-> Nil]

\* a variant of Returned that returns the last error buffered
MutReturnedLast(defs, tim, errBuf) ==
    IF Len(errBuf) > 0
    THEN [defs |-> defs, timing |-> ZeroTiming, err |-> errBuf[Len(errBuf)]]
    ELSE [defs |-> defs, timing |-> tim, err |-> Nil]

\* what LookupAll returns, given the error channel's buffer
Returned(defs, tim, errBuf) ==
    IF Len(errBuf) > 0
    THEN [defs |-> defs, timing |-> ZeroTiming, err |-> Head(errBuf)]
    ELSE [defs |-> defs, timing |-> tim, err |-> Nil]

\* if len(errChan) > 0 { return ..., <-errChan }; return ..., nil
MainReturn(c) ==
    /\ ~panicked
    /\ mpc[c] = "checkErr"
    /\ ret' = [ret EXCEPT ![c] =
                  Returned(allDefinitions[c], timings[c], chans[ChanOf(c)].errChan.buf)]
    /\ chans' = [chans EXCEPT ![ChanOf(c)].errChan.buf = IF @ = <<>> THEN @ ELSE Tail(@)]
    /\ mpc' = [mpc EXCEPT ![c] = "returned"]
    /\ UNCHANGED <<now, cliVars, conv, word, startTimeTotal, wg, tpc, tstart, result, cpc,
                   allDefinitions, timings, panicked, sends>>

Engine(c) ==
    \/ \E p \in Providers : TaskStart(c, p)
    \/ \E p \in Providers : TaskLookup(c, p)
    \/ \E p \in Providers : TaskSendErr(c, p)
    \/ \E p \in Providers : TaskSendDefs(c, p)
    \/ \E p \in Providers : TaskSendDur(c, p)
    \/ \E p \in Providers : TaskDone(c, p)
    \/ CloserWait(c)
    \/ CloseDef(c)
    \/ CloseErr(c)
    \/ CloseDur(c)
    \/ MainRecvDefs(c)
    \/ MainDefsClosed(c)
    \/ MainTimings(c)
    \/ MainRecvDur(c)
    \/ MainDursClosed(c)
    \/ MainReturn(c)


(***************************************************************************)
(* The interactive loop and HandleInput.                                   *)
(***************************************************************************)
Lower(ch) == CASE ch = "A" -> "a" [] ch = "C" -> "c" [] OTHER -> ch
ToLower(s) == [i \in 1..Len(s) |-> Lower(s[i])]

\* the lines a user may type
Lines ==
    { <<":", "q", "\n">>, <<":", "h", "i", "s", "t", "\n">>, <<" ", "\n">>,
      <<"C", "\n">>, <<" ", "a", Quote, "\n">> }

\* a variant of Report without the test for an empty result
MutReport(r) ==
    IF r.err # Nil THEN Printed("Error looking up word") ELSE Printed("results")

\* what HandleInput prints last, given what LookupAll returned
Report(r) ==
    IF r.err # Nil THEN Printed("Error looking up word")
    ELSE IF Len(r.defs) = 0 THEN Printed("No entries found.")
    ELSE Printed("results")

\* reader.ReadString fails: the loop prints the error and prompts again
RunReadError ==
    /\ ~panicked
    /\ hpc = "prompt"
    /\ nInputs < MaxInputs
    /\ nInputs' = nInputs + 1
    /\ out' = Printed("Error reading input")
    /\ UNCHANGED <<now, file, added, addFailed, hpc, engVars, conv>>

\* ":q" or ":quit"
RunQuit(line) ==
    /\ ~panicked
    /\ hpc = "prompt"
    /\ nInputs < MaxInputs
    /\ TrimSpace(line) = <<":", "q">>
    /\ nInputs' = nInputs + 1
    /\ hpc' = "exited"
    /\ out' = Printed("Exiting...")
    /\ UNCHANGED <<now, file, added, addFailed, engVars, conv>>

\* ":hist" or ":history"
RunHistory(line) ==
    /\ ~panicked
    /\ hpc = "prompt"
    /\ nInputs < MaxInputs
    /\ TrimSpace(line) = <<":", "h", "i", "s", "t">>
    /\ nInputs' = nInputs + 1
    /\ \E env \in Envs :
         out' = IF getRecentSearches(file, env).err = Nil
                THEN [msg |-> "History", list |-> getRecentSearches(file, env).val]
                ELSE Printed("Unexpected JSON/filepath error")
    /\ UNCHANGED <<now, file, added, addFailed, hpc, engVars, conv>>

\* HandleInput up to its call of LookupAll, and LookupAll up to its first loop
HandleInput(line) ==
    /\ ~panicked
    /\ hpc = "prompt"
    /\ nInputs < MaxInputs
    /\ TrimSpace(line) \notin {<<":", "q">>, <<":", "h", "i", "s", "t">>}
    /\ nInputs' = nInputs + 1
    /\ LET input == ToLower(TrimSpace(TrimSpace(line)))
       IN IF input = <<>>
          THEN /\ out' = Printed("No input provided.")
               /\ UNCHANGED <<now, file, added, addFailed, hpc, engVars>>
          ELSE /\ \E env \in Envs :
                    LET r == addRecentSearch(input, file, env)
                    IN /\ file' = r.file
                       /\ added' = IF r.err = Nil THEN Append(added, input) ELSE added
                       /\ addFailed' = (addFailed \/ r.err # Nil)
               /\ LookupAllStart("c1", input)
               /\ hpc' = "lookup"
               /\ out' = Printed("Handling input")
    /\ UNCHANGED conv

\* HandleInput after LookupAll has returned
HandleInputReport ==
    /\ ~panicked
    /\ hpc = "lookup"
    /\ mpc["c1"] = "returned"
    /\ out' = Report(ret["c1"])
    /\ hpc' = "prompt"
    /\ mpc' = [mpc EXCEPT !["c1"] = "idle"]
    /\ word' = [word EXCEPT !["c1"] = <<>>]
    /\ startTimeTotal' = [startTimeTotal EXCEPT !["c1"] = 0]
    /\ tpc' = [tpc EXCEPT !["c1"] = [p \in Providers |-> "idle"]]
    /\ tstart' = [tstart EXCEPT !["c1"] = [p \in Providers |-> 0]]
    /\ result' = [result EXCEPT !["c1"] = [p \in Providers |-> NoLookup]]
    /\ chans' = [chans EXCEPT !["c1"] = NewChans]
    /\ cpc' = [cpc EXCEPT !["c1"] = "idle"]
    /\ allDefinitions' = [allDefinitions EXCEPT !["c1"] = <<>>]
    /\ timings' = [timings EXCEPT !["c1"] = ZeroTiming]
    /\ ret' = [ret EXCEPT !["c1"] = NoReturn]
    /\ sends' = [sends EXCEPT !["c1"] = NoSends]
    /\ UNCHANGED <<now, file, added, addFailed, nInputs, wg, panicked, conv>>

Init ==
    /\ now = 0
    /\ CliInit
    /\ EngInit
    /\ conv = NoConv

Next ==
    \/ RunReadError
    \/ \E line \in Lines : RunQuit(line)
    \/ \E line \in Lines : RunHistory(line)
    \/ \E line \in Lines : HandleInput(line)
    \/ HandleInputReport
    \/ Engine("c1")

Spec == Init /\ [][Next]_vars


(***************************************************************************)
(* Concurrent callers of LookupAll, each with a word of its own.  The      *)
(* clock stands at its last instant: instants are not told apart here.     *)
(***************************************************************************)
CallWords == {<<"c">>, <<"k">>}

CallStart(c) ==
    /\ ~panicked
    /\ mpc[c] = "idle"
    /\ \E w \in CallWords :
         /\ \A d \in Calls \ {c} : mpc[d] # "idle" => word[d] # w
         /\ LookupAllStart(c, w)
    /\ UNCHANGED <<cliVars, conv>>

InitConc ==
    /\ now = MaxTime
    /\ CliInit
    /\ EngInit
    /\ conv = NoConv

NextConc ==
    \/ \E c \in Calls : CallStart(c)
    \/ \E c \in Calls : Engine(c)

SpecConc == InitConc /\ [][NextConc]_vars

(***************************************************************************)
(* The normalizers on their own, over bounded inputs.                      *)
(***************************************************************************)
DictWords == {<<"c">>, <<"k">>}
DictPos == {<<"n">>, <<"v">>}
DictDefs == {[Definition |-> <<"d">>, Example |-> <<"e">>],
             [Definition |-> <<" ">>, Example |-> <<>>]}

\* a list of entries, grown by one entry, one meaning or one definition
GrowDict(es) ==
    LET n == Len(es)
        ms == es[n].Meanings
    IN {Append(es, [Word |-> w, Meanings |-> <<>>]) : w \in DictWords}
       \cup (IF n = 0 THEN {}
             ELSE {[es EXCEPT ![n].Meanings = Append(@, [PartOfSpeech |-> pos, Definitions |-> <<>>])]
                     : pos \in DictPos})
       \cup (IF n = 0 \/ ms = <<>> THEN {}
             ELSE {[es EXCEPT ![n].Meanings[Len(ms)].Definitions = Append(@, d)] : d \in DictDefs})

RECURSIVE DictInputsUpTo(_)
DictInputsUpTo(n) ==
    IF n = 0 THEN {<<>>}
    ELSE LET prev == DictInputsUpTo(n - 1)
         IN prev \cup UNION {GrowDict(es) : es \in prev}

DictInputs == DictInputsUpTo(MaxNodes)

RECURSIVE StringsUpTo(_, _)
StringsUpTo(n, alphabet) ==
    IF n = 0 THEN {<<>>}
    ELSE LET prev == StringsUpTo(n - 1, alphabet)
         IN prev \cup {Append(s, ch) : s \in prev, ch \in alphabet}

RECURSIVE ListsUpTo(_, _)
ListsUpTo(n, elems) ==
    IF n = 0 THEN {<<>>}
    ELSE LET prev == ListsUpTo(n - 1, elems)
         IN prev \cup {Append(l, e) : l \in prev, e \in elems}

\* one variable of a binding row: absent, without a value, or with one
Var(name, values) ==
    {EmptyMap, name :> [type |-> <<"l">>]} \cup {name :> Str(v) : v \in values}

\* rows that differ in their definition, and rows that differ in their partOfSpeech
DefRows ==
    {d @@ pos @@ ex : d \in Var("definition", {<<>>, <<" ">>, <<"d">>, <<"\t", "g", " ">>}),
                      pos \in {EmptyMap, "partOfSpeech" :> Str(<<"u", "#", "n">>)},
                      ex \in {EmptyMap, "example" :> Str(<<"x">>)}}
PosRows ==
    {("definition" :> Str(<<"d">>)) @@ pos :
        pos \in Var("partOfSpeech", StringsUpTo(MaxPosLen, {"u", "#"}))}

DBnaryInputs ==
    {<<[Bindings |-> rows]>> : rows \in ListsUpTo(MaxRows, DefRows)}
    \cup {<<[Bindings |-> <<r>>]>> : r \in PosRows}
    \cup {<<[Bindings |-> <<r1>>], [Bindings |-> <<r2>>]>> : r1 \in PosRows, r2 \in PosRows}

InitConv ==
    /\ now = 0
    /\ CliInit
    /\ EngInit
    /\ conv \in {[fn |-> "dict", in |-> es, word |-> <<>>, out |-> <<>>, done |-> FALSE]
                   : es \in DictInputs}
           \cup {[fn |-> "dbnary", in |-> es, word |-> <<"c">>, out |-> <<>>, done |-> FALSE]
                   : es \in DBnaryInputs}

ApplyConvertDictEntries ==
    /\ conv.fn = "dict"
    /\ ~conv.done
    /\ conv' = [conv EXCEPT !.out = ConvertDictEntries(conv.in), !.done = TRUE]
    /\ UNCHANGED <<now, cliVars, engVars>>

ApplyConvertDBnaryEntries ==
    /\ conv.fn = "dbnary"
    /\ ~conv.done
    /\ conv' = [conv EXCEPT !.out = ConvertDBnaryEntries(conv.in, conv.word), !.done = TRUE]
    /\ UNCHANGED <<now, cliVars, engVars>>

NextConv ==
    \/ ApplyConvertDictEntries
    \/ ApplyConvertDBnaryEntries

SpecConv == InitConv /\ [][NextConv]_vars


(***************************************************************************)
(* The provider clients and the history functions as functions: SpecFn     *)
(* applies one of them to one input.  conv.in is the response a client     *)
(* receives, or the file, the operating system's answers and the word.     *)
(***************************************************************************)
ClientStatuses == {199, 200, 201, 204, 299, 300, 404, 500}

DictBodies ==
    [open : {"", "{", "["},
     elems : ListsUpTo(MaxElems, [bad : BOOLEAN, entry : {CatEntry(<<"c">>)}]),
     closed : BOOLEAN]

DBnaryBodies == [valid : BOOLEAN, result : {NoResult, CatResult}]

ClientResponses(bodies, none) ==
    {[transport |-> "timeout", status |-> 0, body |-> none]}
    \cup [transport : {"ok"}, status : ClientStatuses, body : bodies]

FileChars == {"[", "]", Quote, ",", "a", " "}

HistoryFiles ==
    {NoFile}
    \cup {[exists |-> TRUE, data |-> d] : d \in StringsUpTo(MaxFileLen, FileChars)}
    \cup {[exists |-> TRUE, data |-> Marshal(l)]
            : l \in {<< <<"a">> >>, << <<"a">>, <<"b", Quote>> >>}}

HistoryInputs(words) == [file : HistoryFiles, env : Envs, word : words]

FnCall(fn, in) == [fn |-> fn, in |-> in, word |-> <<>>, out |-> <<>>, done |-> FALSE]

InitFn ==
    /\ now = 0
    /\ CliInit
    /\ EngInit
    /\ conv \in {FnCall("LookupDictEntry", r) : r \in ClientResponses(DictBodies, NoBody)}
           \cup {FnCall("LookupDBnaryEntry", r)
                   : r \in ClientResponses(DBnaryBodies, [valid |-> FALSE, result |-> NoResult])}
           \cup {FnCall("getRecentSearches", i) : i \in HistoryInputs({<<>>})}
           \cup {FnCall("addRecentSearch", i) : i \in HistoryInputs({<<"c">>})}

ApplyLookupDictEntry ==
    /\ conv.fn = "LookupDictEntry"
    /\ ~conv.done
    /\ conv' = [conv EXCEPT !.out = LookupDictEntry(conv.in), !.done = TRUE]
    /\ UNCHANGED <<now, cliVars, engVars>>

ApplyLookupDBnaryEntry ==
    /\ conv.fn = "LookupDBnaryEntry"
    /\ ~conv.done
    /\ conv' = [conv EXCEPT !.out = LookupDBnaryEntry(conv.in), !.done = TRUE]
    /\ UNCHANGED <<now, cliVars, engVars>>

ApplyGetRecentSearches ==
    /\ conv.fn = "getRecentSearches"
    /\ ~conv.done
    /\ conv' = [conv EXCEPT !.out = getRecentSearches(conv.in.file, conv.in.env),
                            !.done = TRUE]
    /\ UNCHANGED <<now, cliVars, engVars>>

ApplyAddRecentSearch ==
    /\ conv.fn = "addRecentSearch"
    /\ ~conv.done
    /\ conv' = [conv EXCEPT !.out = addRecentSearch(conv.in.word, conv.in.file, conv.in.env),
                            !.done = TRUE]
    /\ UNCHANGED <<now, cliVars, engVars>>

NextFn ==
    \/ ApplyLookupDictEntry
    \/ ApplyLookupDBnaryEntry
    \/ ApplyGetRecentSearches
    \/ ApplyAddRecentSearch

SpecFn == InitFn /\ [][NextFn]_vars


(***************************************************************************)
(* One call of LookupAll under the Go scheduler: a goroutine that can run  *)
(* eventually runs.  TaskLookup is the client call returning, which the    *)
(* clients' timeout ensures.                                               *)
(***************************************************************************)
Task(c, p) ==
    \/ TaskStart(c, p)
    \/ TaskLookup(c, p)
    \/ TaskSendErr(c, p)
    \/ TaskSendDefs(c, p)
    \/ TaskSendDur(c, p)
    \/ TaskDone(c, p)

Closer(c) ==
    \/ CloserWait(c)
    \/ CloseDef(c)
    \/ CloseErr(c)
    \/ CloseDur(c)

Main(c) ==
    \/ MainRecvDefs(c)
    \/ MainDefsClosed(c)
    \/ MainTimings(c)
    \/ MainRecvDur(c)
    \/ MainDursClosed(c)
    \/ MainReturn(c)

InitLive ==
    /\ now = 0
    /\ CliInit
    /\ EngInit
    /\ conv = NoConv

NextLive ==
    \/ CallStart("c1")
    \/ Engine("c1")

Fairness ==
    /\ \A p \in Providers : WF_vars(Task("c1", p))
    /\ WF_vars(Closer("c1"))
    /\ WF_vars(Main("c1"))

SpecLive == InitLive /\ [][NextLive]_vars /\ Fairness


(***************************************************************************)
(* Properties.                                                             *)
(***************************************************************************)
CliCall == "c1"
HasReturned(c) == mpc[c] = "returned"
Failed(c, p) == result[c][p].err # Nil
Succeeded(c, p) == tpc[c][p] \in {"sendDefs", "sendDur", "deferred", "done"} /\ ~Failed(c, p)

\* what a provider's task of call c reported as definitions
Reported(c, p) ==
    IF Succeeded(c, p) THEN Convert(p, result[c][p].entries, word[c]) ELSE <<>>

\* C1: if a provider client returned an error, LookupAll returns a non-nil
\* error, whatever the other provider did and whichever task finished first.
C1_ErrorNeverMissed ==
    \A c \in Calls :
        (HasReturned(c) /\ \E p \in Providers : Failed(c, p)) => ret[c].err # Nil

C1_Witness ==
    /\ HasReturned(CliCall)
    /\ Succeeded(CliCall, DictSource)
    /\ Failed(CliCall, DBnarySource)
    /\ allDefinitions[CliCall] # <<>>
    /\ ret[CliCall].err = result[CliCall][DBnarySource].err

\* C2: whenever LookupAll returns a non-nil error, the definitions and the
\* timing it returns are empty.
C2_ErrorDiscardsData ==
    \A c \in Calls :
        (HasReturned(c) /\ ret[c].err # Nil) =>
            (ret[c].defs = <<>> /\ ret[c].timing = ZeroTiming)

\* C3: whenever LookupAll returns a nil error, timing.Sources has exactly one
\* entry per provider that completed successfully, which is both of them, and
\* every returned Definition's Source is a key of timing.Sources.
C3_SourcesExact ==
    \A c \in Calls :
        (HasReturned(c) /\ ret[c].err = Nil) =>
            /\ DOMAIN ret[c].timing.Sources = {p \in Providers : Succeeded(c, p)}
            /\ DOMAIN ret[c].timing.Sources = Providers
            /\ \A i \in 1..Len(ret[c].defs) :
                   ret[c].defs[i].Source \in DOMAIN ret[c].timing.Sources

C3_Witness ==
    /\ HasReturned(CliCall)
    /\ ret[CliCall].err = Nil
    /\ {ret[CliCall].defs[i].Source : i \in 1..Len(ret[CliCall].defs)} = Providers

\* C4: LookupAll returns only after both provider tasks have reported their
\* outcome and signalled done, also when one of them failed.
C4_JoinBeforeReturn ==
    \A c \in Calls :
        HasReturned(c) =>
            /\ \A p \in Providers : tpc[c][p] = "done"
            /\ wg[WaitGroupOf(c)] = 0

C4_Witness ==
    /\ HasReturned(CliCall)
    /\ Failed(CliCall, DictSource)
    /\ Succeeded(CliCall, DBnarySource)
    /\ tpc[CliCall][DBnarySource] = "done"
    /\ ret[CliCall].defs = Reported(CliCall, DBnarySource)
    /\ ret[CliCall].defs # <<>>

\* C5: with calls running concurrently for different words, what a call
\* returns holds only what its own provider tasks reported.
C5_NoSharing ==
    \A c \in Calls :
        HasReturned(c) =>
            /\ ret[c].defs \in {Reported(c, DictSource) \o Reported(c, DBnarySource),
                                Reported(c, DBnarySource) \o Reported(c, DictSource)}
            /\ ret[c].err \in {Nil} \cup {result[c][p].err : p \in Providers}
            /\ ret[c].err = Nil =>
                   DOMAIN ret[c].timing.Sources = {p \in Providers : Succeeded(c, p)}
            /\ ret[c].err = Nil <=> \A p \in Providers : ~Failed(c, p)

C5_Witness ==
    /\ HasReturned("c1")
    /\ ret["c1"].err = Nil
    /\ Len(ret["c1"].defs) > 1
    /\ mpc["c2"] = "rangeDefs"
    /\ word["c1"] # word["c2"]
    /\ chans[ChanOf("c2")].defChan.buf # <<>>
    /\ chans[ChanOf("c2")].durChan.buf # <<>>

\* C6: when both providers decode successfully and yield no definition,
\* LookupAll returns a nil error and no definitions, and HandleInput then
\* prints that there are no entries, not an error.
NoDefinitions(c) ==
    \A p \in Providers : Succeeded(c, p) /\ Reported(c, p) = <<>>

C6_NoEntries ==
    [][(HasReturned(CliCall) /\ NoDefinitions(CliCall)) =>
          /\ ret[CliCall].err = Nil
          /\ ret[CliCall].defs = <<>>
          /\ hpc' = "prompt" => out' = Printed("No entries found.")]_vars

C6_Witness ==
    /\ hpc = "prompt"
    /\ out = Printed("No entries found.")

\* C7: ConvertDictEntries returns one Definition per leaf definition, in
\* source order, each with its meaning's part of speech, its entry's word and
\* the source "dictionaryapi.dev".
Leaves(es) ==
    UNION {UNION {{<<e, m, d>> : d \in 1..Len(es[e].Meanings[m].Definitions)}
                    : m \in 1..Len(es[e].Meanings)}
             : e \in 1..Len(es)}

Before(a, b) ==
    \/ a[1] < b[1]
    \/ a[1] = b[1] /\ a[2] < b[2]
    \/ a[1] = b[1] /\ a[2] = b[2] /\ a[3] < b[3]

Rank(es, t) == Cardinality({u \in Leaves(es) : Before(u, t)}) + 1

C7_DictFlatten ==
    (conv.fn = "dict" /\ conv.done) =>
        /\ Len(conv.out) = Cardinality(Leaves(conv.in))
        /\ \A t \in Leaves(conv.in) :
               conv.out[Rank(conv.in, t)] =
                   [Word |-> conv.in[t[1]].Word,
                    PartOfSpeech |-> conv.in[t[1]].Meanings[t[2]].PartOfSpeech,
                    Definition |-> conv.in[t[1]].Meanings[t[2]].Definitions[t[3]].Definition,
                    Example |-> conv.in[t[1]].Meanings[t[2]].Definitions[t[3]].Example,
                    Source |-> "dictionaryapi.dev"]

C7_Witness ==
    /\ conv.fn = "dict"
    /\ conv.done
    /\ Len(conv.in) = 1
    /\ Len(conv.in[1].Meanings) = 2
    /\ Len(conv.out) = 2
    /\ conv.out[1].PartOfSpeech # conv.out[2].PartOfSpeech

\* C8: ConvertDBnaryEntries drops every row whose definition is absent,
\* empty or whitespace-only and keeps every other row, in order.
AllRows(es) == Concat([e \in 1..Len(es) |-> es[e].Bindings])

VarText(row, name) ==
    IF name \in DOMAIN row /\ "value" \in DOMAIN row[name] THEN row[name]["value"] ELSE <<>>

Blank(s) == \A i \in 1..Len(s) : s[i] \in {" ", "\t", "\n"}

NotBlankRow(row) == ~Blank(VarText(row, "definition"))

KeptRows(es) == SelectSeq(AllRows(es), NotBlankRow)

C8_BlankRowsDropped ==
    (conv.fn = "dbnary" /\ conv.done) =>
        /\ Len(conv.out) = Len(KeptRows(conv.in))
        /\ \A k \in 1..Len(conv.out) :
               /\ conv.out[k].Definition = VarText(KeptRows(conv.in)[k], "definition")
               /\ conv.out[k].Example = VarText(KeptRows(conv.in)[k], "example")
               /\ conv.out[k].Word = conv.word
               /\ conv.out[k].Source = "DBnary"
               /\ ~Blank(conv.out[k].Definition)

C8_Witness ==
    /\ conv.fn = "dbnary"
    /\ conv.done
    /\ Len(AllRows(conv.in)) = 2
    /\ VarText(AllRows(conv.in)[1], "definition") = <<" ">>
    /\ Len(conv.out) = 1
    /\ conv.out[1].Definition = <<"\t", "g", " ">>

\* C9, as claimed: a kept row's PartOfSpeech is the text after the last '#'
\* of its partOfSpeech value when that value has a '#', and the empty string
\* in every other case.
HasHash(s) == \E i \in 1..Len(s) : s[i] = "#"

Suffixes(s) == {SubSeq(s, i, Len(s)) : i \in 1..(Len(s) + 1)}

AfterLastHash(s) ==
    CHOOSE f \in Suffixes(s) :
        /\ ~HasHash(f)
        /\ Len(f) < Len(s)
        /\ s[Len(s) - Len(f)] = "#"

ClaimedPos(row) ==
    IF "partOfSpeech" \in DOMAIN row /\ HasHash(VarText(row, "partOfSpeech"))
    THEN AfterLastHash(VarText(row, "partOfSpeech"))
    ELSE <<>>

C9_PosFragmentOrEmpty ==
    (conv.fn = "dbnary" /\ conv.done) =>
        \A k \in 1..Len(conv.out) :
            conv.out[k].PartOfSpeech = ClaimedPos(KeptRows(conv.in)[k])

\* C9, amended: a kept row's PartOfSpeech is the text after the last '#' when
\* the value has a '#' that is not its last character, the value itself when
\* it has no '#' or ends with '#', and the empty string when the variable is
\* absent.
AmendedPos(row) ==
    LET t == VarText(row, "partOfSpeech")
    IN IF "partOfSpeech" \notin DOMAIN row THEN <<>>
       ELSE IF HasHash(t) /\ AfterLastHash(t) # <<>> THEN AfterLastHash(t)
       ELSE t

C9_PosFragmentOrValue ==
    (conv.fn = "dbnary" /\ conv.done) =>
        \A k \in 1..Len(conv.out) :
            conv.out[k].PartOfSpeech = AmendedPos(KeptRows(conv.in)[k])

C9_Witness ==
    /\ conv.fn = "dbnary"
    /\ conv.done
    /\ Len(conv.out) = 2
    /\ VarText(AllRows(conv.in)[1], "partOfSpeech") = <<"#", "#", "u">>
    /\ conv.out[1].PartOfSpeech = <<"u">>
    /\ VarText(AllRows(conv.in)[2], "partOfSpeech") = <<"u", "u">>
    /\ conv.out[2].PartOfSpeech = <<"u", "u">>

\* C10: starting from a missing history file, as long as every
\* addRecentSearch has succeeded, getRecentSearches returns exactly the words
\* added, in the order they were added.
EnvOk == [caller |-> TRUE, read |-> "ok", mkdir |-> "ok", write |-> "ok"]

C10_HistoryAppendOnly ==
    ~addFailed =>
        /\ getRecentSearches(file, EnvOk) = [val |-> added, err |-> Nil]
        /\ out.msg = "History" => out.list = added

C10_Witness ==
    /\ ~addFailed
    /\ Len(added) = 2
    /\ added[1] # added[2]
    /\ Quote \in {added[2][i] : i \in 1..Len(added[2])}
    /\ getRecentSearches(file, EnvOk).val = added


Range(seq) == {seq[i] : i \in 1..Len(seq)}
Count(seq, x) == Cardinality({i \in 1..Len(seq) : seq[i] = x})
AnyClosed(c) ==
    \/ chans[ChanOf(c)].defChan.closed
    \/ chans[ChanOf(c)].errChan.closed
    \/ chans[ChanOf(c)].durChan.closed

\* C12: no task sends on a closed channel: the closes happen only after both
\* tasks have signalled done, and a task signals done only after its last send.
C12_NoSendAfterClose ==
    /\ ~panicked
    /\ \A c \in Calls :
         /\ cpc[c] \in {"closeDef", "closeErr", "closeDur", "exit"} => wg[WaitGroupOf(c)] = 0
         /\ AnyClosed(c) => \A p \in Providers : tpc[c][p] = "done"
         /\ \A p \in Providers :
                tpc[c][p] \in {"deferred", "done"} =>
                    \/ p \in Range(sends[c].err)
                    \/ p \in Range(sends[c].def) /\ p \in Range(sends[c].dur)

C12_Witness ==
    /\ ~panicked
    /\ chans[ChanOf(CliCall)].errChan.closed
    /\ chans[ChanOf(CliCall)].durChan.closed
    /\ Len(chans[ChanOf(CliCall)].errChan.buf) = 1
    /\ Len(chans[ChanOf(CliCall)].durChan.buf) = 1

Sendable(ch) == CanSend(ch) /\ ~ch.closed

\* C13: each task reports exactly one outcome, a definitions message followed
\* by a timing message or else one error message; no channel holds more than
\* its capacity, and a task that is about to send finds room in the channel.
C13_OneOutcomePerTask ==
    \A c \in Calls :
        /\ \A p \in Providers :
             /\ Count(sends[c].def, p) <= 1
             /\ Count(sends[c].dur, p) <= 1
             /\ Count(sends[c].err, p) <= 1
             /\ p \in Range(sends[c].dur) => p \in Range(sends[c].def)
             /\ ~(p \in Range(sends[c].err) /\ p \in Range(sends[c].def))
             /\ tpc[c][p] = "done" =>
                    Count(sends[c].err, p) + Count(sends[c].dur, p) = 1
             /\ tpc[c][p] = "sendDefs" => Sendable(chans[ChanOf(c)].defChan)
             /\ tpc[c][p] = "sendDur" => Sendable(chans[ChanOf(c)].durChan)
             /\ tpc[c][p] = "sendErr" => Sendable(chans[ChanOf(c)].errChan)
        /\ Len(chans[ChanOf(c)].defChan.buf) <= 2
        /\ Len(chans[ChanOf(c)].errChan.buf) <= 2
        /\ Len(chans[ChanOf(c)].durChan.buf) <= 2

C13_Witness ==
    /\ mpc[CliCall] = "rangeDefs"
    /\ \A p \in Providers : tpc[CliCall][p] = "done"
    /\ Len(chans[ChanOf(CliCall)].defChan.buf) = 2
    /\ Len(chans[ChanOf(CliCall)].durChan.buf) = 2
    /\ sends[CliCall].err = <<>>

\* C15: when both providers fail, LookupAll returns the error of the task
\* that sent first; the other error stays in the channel, unread.
C15_FirstErrorReturned ==
    \A c \in Calls :
        (HasReturned(c) /\ \A p \in Providers : Failed(c, p)) =>
            /\ Len(sends[c].err) = 2
            /\ ret[c].err = result[c][sends[c].err[1]].err
            /\ chans[ChanOf(c)].errChan.buf = << result[c][sends[c].err[2]].err >>

C15_Witness ==
    /\ HasReturned(CliCall)
    /\ sends[CliCall].err = <<DBnarySource, DictSource>>
    /\ ret[CliCall].err = result[CliCall][DBnarySource].err
    /\ ret[CliCall].err # result[CliCall][DictSource].err

\* C16: on success the merged definitions are the two providers' lists, each
\* whole and in its own order, in the order their messages were sent.
C16_BlocksInArrivalOrder ==
    \A c \in Calls :
        (HasReturned(c) /\ ret[c].err = Nil) =>
            /\ Len(sends[c].def) = 2
            /\ sends[c].def[1] # sends[c].def[2]
            /\ ret[c].defs = Reported(c, sends[c].def[1]) \o Reported(c, sends[c].def[2])

C16_Witness ==
    /\ HasReturned(CliCall)
    /\ ret[CliCall].err = Nil
    /\ sends[CliCall].def = <<DBnarySource, DictSource>>
    /\ Reported(CliCall, DBnarySource) # <<>>
    /\ Reported(CliCall, DictSource) # <<>>
    /\ ret[CliCall].defs[1].Source = DBnarySource

\* C17: every Definition LookupAll returns, from either provider, has a
\* definition that is not blank.
C17_DefinitionsNotBlank ==
    \A c \in Calls :
        HasReturned(c) =>
            \A i \in 1..Len(ret[c].defs) : ~Blank(ret[c].defs[i].Definition)

\* C19: on success, timing.Total is at least every duration in timing.Sources;
\* every task starts no earlier than the call.
C19_TotalCoversSources ==
    \A c \in Calls :
        /\ \A p \in Providers :
               tpc[c][p] \notin {"idle", "spawned"} => tstart[c][p] >= startTimeTotal[c]
        /\ (HasReturned(c) /\ ret[c].err = Nil) =>
               \A p \in DOMAIN ret[c].timing.Sources :
                   ret[c].timing.Total >= ret[c].timing.Sources[p]

C19_Witness ==
    /\ HasReturned(CliCall)
    /\ ret[CliCall].err = Nil
    /\ ret[CliCall].timing.Total = 1
    /\ ret[CliCall].timing.Sources[DictSource] = 1
    /\ ret[CliCall].timing.Sources[DBnarySource] = 0


ClientCall == conv.fn \in {"LookupDictEntry", "LookupDBnaryEntry"} /\ conv.done
Decoded(o) == o.err.kind \in {"nil", "json", "notarray"}
StatusError(r, o) == o.err.kind = "status" /\ o.err.code = r.status /\ o.entries = <<>>

\* C11 (as stated): a client returns a remote-status error carrying the code,
\* and no records, exactly when the response's status is outside 200..299;
\* every 2xx response is decoded.
C11_StatusErrorIffNot2xx ==
    ClientCall =>
        /\ StatusError(conv.in, conv.out) <=>
               (conv.in.transport = "ok" /\ conv.in.status \notin 200..299)
        /\ (conv.in.transport = "ok" /\ conv.in.status \in 200..299) => Decoded(conv.out)

\* C11 (amended): a client returns a remote-status error carrying the code,
\* and no records, exactly when a response arrived and its status is not 200;
\* only a 200 response is decoded.
C11_StatusErrorIffNot200 ==
    ClientCall =>
        /\ StatusError(conv.in, conv.out) <=>
               (conv.in.transport = "ok" /\ conv.in.status # 200)
        /\ conv.out.err.kind = "status" => StatusError(conv.in, conv.out)
        /\ (conv.in.transport = "ok" /\ conv.in.status = 200) => Decoded(conv.out)
        /\ conv.in.transport # "ok" => conv.out = [entries |-> <<>>, err |-> Err("network")]

C11_Witness ==
    /\ ClientCall
    /\ conv.fn = "LookupDictEntry"
    /\ conv.in.status = 204
    /\ conv.in.body = DictBody(<<CatEntry(<<"c">>)>>)
    /\ conv.out = [entries |-> <<>>, err |-> StatusErr(204)]

Unreadable(f, env) ==
    f.exists /\ (env.read # "ok" \/ Unmarshal(f.data).err # Nil)

\* C18: when the history file exists and cannot be read or parsed,
\* getRecentSearches returns an error and addRecentSearch returns that error
\* without writing: the file is as before and nothing is recorded.
C18_UnreadableHistoryKept ==
    /\ (conv.fn = "getRecentSearches" /\ conv.done /\ Unreadable(conv.in.file, conv.in.env)) =>
           /\ conv.out.err # Nil
           /\ conv.out.val = <<>>
    /\ (conv.fn = "addRecentSearch" /\ conv.done /\ Unreadable(conv.in.file, conv.in.env)) =>
           /\ conv.out.err # Nil
           /\ conv.out.err = getRecentSearches(conv.in.file, conv.in.env).err
           /\ conv.out.file = conv.in.file
           /\ conv.out.json = <<>>

C18_Witness ==
    /\ conv.fn = "addRecentSearch"
    /\ conv.done
    /\ conv.in.file = [exists |-> TRUE, data |-> <<"[", Quote, "a">>]
    /\ conv.in.env = EnvOk
    /\ conv.out = [file |-> conv.in.file, json |-> <<>>, err |-> Err("json")]


InProgress(c) == mpc[c] \notin {"idle", "returned"}

\* C14: a call of LookupAll that has started eventually returns, and until
\* it has returned some goroutine of the call can take a step.
C14_LookupAllReturns ==
    /\ [](InProgress(CliCall) => ENABLED Engine(CliCall))
    /\ InProgress(CliCall) ~> HasReturned(CliCall)

C14_Witness ==
    /\ HasReturned(CliCall)
    /\ cpc[CliCall] = "exit"
    /\ chans[ChanOf(CliCall)].defChan = [buf |-> <<>>, closed |-> TRUE]
    /\ chans[ChanOf(CliCall)].durChan = [buf |-> <<>>, closed |-> TRUE]
    /\ chans[ChanOf(CliCall)].errChan.closed
    /\ Len(sends[CliCall].def) = 1
    /\ Len(sends[CliCall].err) = 1

=============================================================================
